---- MODULE Spec2Model ----
(***************************************************************************)
(* Model of PhasicDoorKeyEnv._gen_grid (src/phasicdoorkey.py).             *)
(*                                                                         *)
(* Two environments of the same phase are generated, one constructed with  *)
(* door_locked=True (env_l) and one with door_locked=False (env_u), as the *)
(* script at the bottom of the file builds them.  Both are fed the same    *)
(* random draws, so that every state holds a pair of runs that differ in   *)
(* door_locked only.                                                       *)
(*                                                                         *)
(* The grid primitives (Grid, set, get, wall_rect, vert_wall, put_obj,     *)
(* place_obj, place_agent, _rand_int) are those of the minigrid framework  *)
(* the class is built on, modelled at the call sites of _gen_grid.         *)
(***************************************************************************)
EXTENDS Integers, Sequences, FiniteSets, TLC

VARIABLES env_l, env_u

vars == <<env_l, env_u>>

\* ---------------------------------------------------------------- bounds
MaxWidth == 7
MaxHeight == 5
MaxTries == 2

Widths == 4..MaxWidth
Heights == 3..MaxHeight
Phases == {1, 2, 3}

Min(a, b) == IF a < b THEN a ELSE b

\* ---------------------------------------------------------- world objects
NoPos == <<>>

\* an empty cell (Python None)
None == [type |-> "none"]

Wall == [type |-> "wall", color |-> "grey", init_pos |-> NoPos, cur_pos |-> NoPos]

Goal == [type |-> "goal", color |-> "green", init_pos |-> NoPos, cur_pos |-> NoPos]

Key(color) == [type |-> "key", color |-> color, init_pos |-> NoPos, cur_pos |-> NoPos]

Door(color, is_locked) ==
    [type |-> "door", color |-> color, is_open |-> FALSE, is_locked |-> is_locked,
     init_pos |-> NoPos, cur_pos |-> NoPos]

\* ------------------------------------------------------------------- grid
\* Grid(width, height): width*height cells, all None, stored row by row
Grid(width, height) ==
    [width |-> width, height |-> height, grid |-> [k \in 1..(width * height) |-> None]]

\* the asserts of Grid.set
set_ok(G, i, j) == 0 <= i /\ i < G.width /\ 0 <= j /\ j < G.height

set(G, i, j, v) == [G EXCEPT !.grid[j * G.width + i + 1] = v]

get(G, i, j) == G.grid[j * G.width + i + 1]

\* the cells that horz_wall(x, y, length) sets: (x + i, y) for i in range(length)
horz_cells(G, x, y, length) == {y * G.width + (x + i) + 1 : i \in 0..(length - 1)}

\* the cells that vert_wall(x, y, length) sets: (x, y + j) for j in range(length)
vert_cells(G, x, y, length) == {(y + j) * G.width + x + 1 : j \in 0..(length - 1)}

\* Grid.set(..., Wall()) on each of the cells
set_walls(G, cells) ==
    [G EXCEPT !.grid = [k \in 1..(G.width * G.height) |->
        IF k \in cells THEN Wall ELSE G.grid[k]]]

horz_wall(G, x, y, length) == set_walls(G, horz_cells(G, x, y, length))

vert_wall(G, x, y, length) == set_walls(G, vert_cells(G, x, y, length))

\* horz_wall(x, y, w); horz_wall(x, y + h - 1, w); vert_wall(x, y, h);
\* vert_wall(x + w - 1, y, h)
wall_rect(G, x, y, w, h) ==
    set_walls(G, horz_cells(G, x, y, w) \cup horz_cells(G, x, y + h - 1, w)
                 \cup vert_cells(G, x, y, h) \cup vert_cells(G, x + w - 1, y, h))

\* put_obj: grid.set(i, j, obj); obj.init_pos = (i, j); obj.cur_pos = (i, j)
put_obj(G, obj, i, j) ==
    set(G, i, j, [obj EXCEPT !.init_pos = <<i, j>>, !.cur_pos = <<i, j>>])

\* _rand_int(low, high): the values np_random.integers(low, high) can return;
\* empty when low >= high, where the call raises ValueError
rand_int(low, high) == low..(high - 1)

\* ------------------------------------------------------------ environment
\* the environment after construction and the start of reset()
NewEnv(width, height, phase, door_locked) ==
    [width |-> width, height |-> height, phase |-> phase, door_locked |-> door_locked,
     grid |-> Grid(width, height),
     agent_pos |-> <<-1, -1>>, agent_dir |-> -1, mission |-> "",
     has_goal |-> FALSE, wallOpeningIdx |-> 0, splitIdx |-> 0, doorIdx |-> 0,
     num_tries |-> 0, pc |-> "start", err |-> ""]

Init ==
    \E width \in Widths, height \in Heights, phase \in Phases :
        /\ env_l = NewEnv(width, height, phase, TRUE)
        /\ env_u = NewEnv(width, height, phase, FALSE)

\* both environments take the same step, fed the same draws
Lockstep(F(_)) == env_l' = F(env_l) /\ env_u' = F(env_u)

raise(e, err) == [e EXCEPT !.pc = "error", !.err = err]

\* lines 83-94: empty grid, has_goal, surrounding walls, goal
gen_grid_begin(e) ==
    LET has_goal == IF e.phase = 1 THEN FALSE ELSE TRUE
        walled == wall_rect(Grid(e.width, e.height), 0, 0, e.width, e.height)
    IN [e EXCEPT !.has_goal = has_goal,
                 !.grid = IF has_goal THEN put_obj(walled, Goal, e.width - 2, e.height - 2)
                          ELSE walled,
                 !.pc = "opening"]

GenGridBegin ==
    /\ env_l.pc = "start"
    /\ Lockstep(gen_grid_begin)

\* line 97: wallOpeningIdx = self._rand_int(1, height - 2)
opening_draws(e) == rand_int(1, e.height - 2)

gen_grid_opening(e, d) == [e EXCEPT !.wallOpeningIdx = d, !.pc = "split"]

DrawOpening ==
    /\ env_l.pc = "opening"
    /\ \E d \in opening_draws(env_l) : Lockstep(LAMBDA e : gen_grid_opening(e, d))

\* line 97 with an empty range: _rand_int raises ValueError
DrawOpeningFail ==
    /\ env_l.pc = "opening"
    /\ opening_draws(env_l) = {}
    /\ Lockstep(LAMBDA e : raise(e, "ValueError"))

\* variant: the lower end of the split range off by one
split_draws_low(e) == rand_int(1, e.width - 2)

\* line 100: splitIdx = self._rand_int(2, width - 2)
split_draws(e) == rand_int(2, e.width - 2)

\* lines 100-102: the two segments of the splitting wall; then place_agent
\* starts by resetting agent_pos to (-1, -1)
gen_grid_split(e, d) ==
    [e EXCEPT !.splitIdx = d,
                 !.grid = vert_wall(vert_wall(e.grid, d, 0, e.wallOpeningIdx),
                                    d, e.wallOpeningIdx + 1, e.height - e.wallOpeningIdx - 1),
                 !.agent_pos = <<-1, -1>>, !.num_tries = 0, !.pc = "agent"]

DrawSplit ==
    /\ env_l.pc = "split"
    /\ \E d \in split_draws(env_l) : Lockstep(LAMBDA e : gen_grid_split(e, d))

\* line 100 with an empty range: _rand_int raises ValueError
DrawSplitFail ==
    /\ env_l.pc = "split"
    /\ split_draws(env_l) = {}
    /\ Lockstep(LAMBDA e : raise(e, "ValueError"))

\* place_obj: the positions one iteration of the sampling loop can draw,
\* top = (0, 0) in both calls of _gen_grid
place_obj_draws(e, size) ==
    { <<x, y>> : x \in rand_int(0, Min(size[1], e.grid.width)),
                 y \in rand_int(0, Min(size[2], e.grid.height)) }

\* variant: the agent's cell is not excluded
place_obj_rejects_occupied(e, pos) == get(e.grid, pos[1], pos[2]) # None

\* place_obj: the loop draws again when the cell is not empty or is the agent's
place_obj_rejects(e, pos) ==
    \/ get(e.grid, pos[1], pos[2]) # None
    \/ pos = e.agent_pos

\* place_obj: a rejected draw, num_tries += 1 (max_tries is math.inf);
\* the counter is kept up to MaxTries
place_obj_retry(e) ==
    [e EXCEPT !.num_tries = Min(e.num_tries + 1, MaxTries)]

\* variant: the agent's region includes the split column
agent_size_wide(e) == <<e.splitIdx + 1, e.height>>

\* line 106: self.place_agent(size=(splitIdx, height))
agent_size(e) == <<e.splitIdx, e.height>>

\* place_agent: pos = place_obj(None, top, size); agent_pos = pos;
\* agent_dir = _rand_int(0, 4)
place_agent(e, pos, dir) ==
    IF place_obj_rejects(e, pos)
    THEN place_obj_retry(e)
    ELSE [e EXCEPT !.grid = set(e.grid, pos[1], pos[2], None),
                   !.agent_pos = pos, !.agent_dir = dir,
                   !.num_tries = 0, !.pc = "door"]

PlaceAgentReject ==
    /\ env_l.pc = "agent"
    /\ \E pos \in place_obj_draws(env_l, agent_size(env_l)) :
          /\ place_obj_rejects(env_l, pos)
          /\ Lockstep(LAMBDA e : place_agent(e, pos, 0))

PlaceAgentAccept ==
    /\ env_l.pc = "agent"
    /\ \E pos \in place_obj_draws(env_l, agent_size(env_l)), dir \in rand_int(0, 4) :
          /\ ~place_obj_rejects(env_l, pos)
          /\ Lockstep(LAMBDA e : place_agent(e, pos, dir))

\* line 109: doorIdx = self._rand_int(1, width - 2)
door_draws(e) == rand_int(1, e.width - 2)

\* variant: the door takes the constructor's door_locked
new_door_flag(e) == Door("yellow", e.door_locked)

\* line 110: Door("yellow", is_locked=True)
new_door(e) == Door("yellow", TRUE)

\* lines 109-110: the door is put at (splitIdx, doorIdx); Grid.set asserts
\* that the cell is inside the grid
gen_grid_door(e, d) ==
    IF set_ok(e.grid, e.splitIdx, d)
    THEN [e EXCEPT !.doorIdx = d, !.grid = put_obj(e.grid, new_door(e), e.splitIdx, d),
                   !.pc = "key"]
    ELSE [raise(e, "AssertionError") EXCEPT !.doorIdx = d]

PlaceDoor ==
    /\ env_l.pc = "door"
    /\ \E d \in door_draws(env_l) :
          /\ set_ok(env_l.grid, env_l.splitIdx, d)
          /\ Lockstep(LAMBDA e : gen_grid_door(e, d))

PlaceDoorFail ==
    /\ env_l.pc = "door"
    /\ \E d \in door_draws(env_l) :
          /\ ~set_ok(env_l.grid, env_l.splitIdx, d)
          /\ Lockstep(LAMBDA e : gen_grid_door(e, d))

\* variant: the condition of line 113, a key only when there is no goal
places_key_no_goal(e) == ~e.has_goal

\* line 114: if self.phase==1 or self.phase==3
places_key(e) == e.phase = 1 \/ e.phase = 3

\* line 115: size=(splitIdx, height)
key_size(e) == <<e.splitIdx, e.height>>

\* line 117
gen_grid_end(e) ==
    [e EXCEPT !.mission = "use the key to open the door and then get to the goal",
              !.num_tries = 0, !.pc = "done"]

\* line 115: place_obj(obj=Key("yellow"), top=(0, 0), size=(splitIdx, height)),
\* then line 117
gen_grid_key(e, pos) ==
    IF place_obj_rejects(e, pos)
    THEN place_obj_retry(e)
    ELSE gen_grid_end([e EXCEPT !.grid = put_obj(e.grid, Key("yellow"), pos[1], pos[2])])

PlaceKeyReject ==
    /\ env_l.pc = "key"
    /\ places_key(env_l)
    /\ \E pos \in place_obj_draws(env_l, key_size(env_l)) :
          /\ place_obj_rejects(env_l, pos)
          /\ Lockstep(LAMBDA e : gen_grid_key(e, pos))

PlaceKeyAccept ==
    /\ env_l.pc = "key"
    /\ places_key(env_l)
    /\ \E pos \in place_obj_draws(env_l, key_size(env_l)) :
          /\ ~place_obj_rejects(env_l, pos)
          /\ Lockstep(LAMBDA e : gen_grid_key(e, pos))

\* line 114 false: no key, then line 117
NoKey ==
    /\ env_l.pc = "key"
    /\ ~places_key(env_l)
    /\ Lockstep(gen_grid_end)

\* the steps that are not a rejected draw of the sampling loop
Progress ==
    \/ GenGridBegin
    \/ DrawOpening
    \/ DrawOpeningFail
    \/ DrawSplit
    \/ DrawSplitFail
    \/ PlaceAgentAccept
    \/ PlaceDoor
    \/ PlaceDoorFail
    \/ PlaceKeyAccept
    \/ NoKey

Next ==
    \/ GenGridBegin
    \/ DrawOpening
    \/ DrawOpeningFail
    \/ DrawSplit
    \/ DrawSplitFail
    \/ PlaceAgentReject
    \/ PlaceAgentAccept
    \/ PlaceDoor
    \/ PlaceDoorFail
    \/ PlaceKeyReject
    \/ PlaceKeyAccept
    \/ NoKey

Spec == Init /\ [][Next]_vars

\* the random draws are fair: a draw that the sampling loop accepts is
\* eventually made while one exists
FairSpec == Spec /\ WF_vars(Progress)

\* ------------------------------------------------------------ properties
Envs == {env_l, env_u}

Cells(e) == (0..(e.width - 1)) \X (0..(e.height - 1))

TypeAt(e, c) == get(e.grid, c[1], c[2]).type

CellsOf(e, type) == {c \in Cells(e) : TypeAt(e, c) = type}

Completed(e) == e.pc = "done"

\* rows 1..height-2 of the split-wall column that hold no wall
SplitGaps(e) == {j \in 1..(e.height - 2) : TypeAt(e, <<e.splitIdx, j>>) # "wall"}

\* cells of columns [0, splitIdx) that are empty and not the agent's
FreeLeft(e) ==
    {c \in Cells(e) : c[1] < e.splitIdx /\ get(e.grid, c[1], c[2]) = None /\ c # e.agent_pos}

InLeftInterior(e, c) ==
    /\ 1 <= c[1] /\ c[1] <= e.splitIdx - 1
    /\ 1 <= c[2] /\ c[2] <= e.height - 2

Border(e) ==
    {c \in Cells(e) : c[1] = 0 \/ c[1] = e.width - 1 \/ c[2] = 0 \/ c[2] = e.height - 1}

Adjacent(c, d) ==
    \/ c[1] = d[1] /\ (c[2] = d[2] + 1 \/ d[2] = c[2] + 1)
    \/ c[2] = d[2] /\ (c[1] = d[1] + 1 \/ d[1] = c[1] + 1)

RECURSIVE Closure(_, _)
\* the cells of P connected to S by steps between adjacent cells of P
Closure(S, P) ==
    LET new == {c \in P \ S : \E d \in S : Adjacent(c, d)}
    IN IF new = {} THEN S ELSE Closure(S \cup new, P)

\* the goal can be reached from the start cell without passing the door, or
\* through the door when a key can be reached without passing the door
Solvable(e) ==
    LET open == {c \in Cells(e) : TypeAt(e, c) \in {"none", "goal", "key"}}
        before == Closure({e.agent_pos}, open)
        after == Closure({e.agent_pos}, open \cup CellsOf(e, "door"))
    IN \/ \E g \in CellsOf(e, "goal") : g \in before
       \/ /\ \E k \in CellsOf(e, "key") : k \in before
          /\ \E g \in CellsOf(e, "goal") : g \in after

\* what a generate call leaves: the grid, the agent's pose, the draws
Layout(e) ==
    [grid |-> e.grid, agent_pos |-> e.agent_pos, agent_dir |-> e.agent_dir,
     splitIdx |-> e.splitIdx, wallOpeningIdx |-> e.wallOpeningIdx, doorIdx |-> e.doorIdx,
     mission |-> e.mission, pc |-> e.pc, err |-> e.err]

\* C1: in every completed layout the split-wall column has exactly one
\* non-wall cell among rows 1..height-2, and that cell holds the door.
C1_SplitColumnOneOpening ==
    \A e \in Envs : Completed(e) =>
        /\ Cardinality(SplitGaps(e)) = 1
        /\ \A j \in SplitGaps(e) : TypeAt(e, <<e.splitIdx, j>>) = "door"

\* C2: a completed layout of phase 1 holds no goal and exactly one key, in a
\* column < splitIdx; of phase 2 exactly one goal, at (width-2, height-2), and
\* no key; of phase 3 exactly one goal at (width-2, height-2) and exactly one
\* key in a column < splitIdx.  Once put, the goal stays on its cell through
\* every later step of the generation.
C2_PhaseContents ==
    \A e \in Envs :
        /\ Completed(e) =>
              /\ CellsOf(e, "goal") = (IF e.phase = 1 THEN {} ELSE {<<e.width - 2, e.height - 2>>})
              /\ Cardinality(CellsOf(e, "key")) = (IF e.phase = 2 THEN 0 ELSE 1)
              /\ \A k \in CellsOf(e, "key") : k[1] < e.splitIdx
        /\ (e.pc \notin {"start", "error"} /\ e.phase # 1) =>
              TypeAt(e, <<e.width - 2, e.height - 2>>) = "goal"

C2_Witness ==
    /\ Completed(env_l) /\ env_l.phase = 3
    /\ env_l.splitIdx = env_l.width - 3
    /\ env_l.doorIdx = env_l.height - 2
    /\ CellsOf(env_l, "key") # {}

\* C3: in every completed layout the agent's column is < splitIdx, and so
\* less than the door's column, for every phase and door_locked value.
C3_AgentLeft ==
    \A e \in Envs : (e.pc \in {"door", "key", "done"}) =>
        /\ e.agent_pos[1] < e.splitIdx
        /\ \A d \in CellsOf(e, "door") : e.agent_pos[1] < d[1]

C3_Witness ==
    /\ Completed(env_u) /\ Completed(env_l)
    /\ env_u.agent_pos[1] = env_u.splitIdx - 1
    /\ env_u.agent_pos[2] = env_u.wallOpeningIdx
    /\ env_u.splitIdx > 2

\* C4: wherever generation reaches the door step, the door is put at column
\* splitIdx and at a row in [1, height-3], for width # height as well.
C4_DoorRow ==
    \A e \in Envs : (e.pc \in {"key", "done"}) =>
        /\ e.doorIdx \in 1..(e.height - 3)
        /\ CellsOf(e, "door") = {<<e.splitIdx, e.doorIdx>>}

\* C5 as stated: for width >= 5 and height >= 3 no step ends the call
\* without a layout.
C5_NoFailure ==
    \A e \in Envs : (e.width >= 5 /\ e.height >= 3) => e.pc # "error"

\* C5 amended: for width >= 5 and height >= 4, under fair draws the call
\* terminates, with a completed layout or with the assertion error of a door
\* row >= height.
C5_Terminates ==
    (env_l.width >= 5 /\ env_l.height >= 4) =>
        <>(\/ Completed(env_l)
           \/ /\ env_l.pc = "error" /\ env_l.err = "AssertionError"
              /\ env_l.doorIdx >= env_l.height)

C5_Witness ==
    /\ Completed(env_l) /\ env_l.phase = 3
    /\ env_l.width >= 5 /\ env_l.height = 4
    /\ CellsOf(env_l, "key") # {}

\* C6: in every completed layout every border cell holds a wall.
C6_BorderWalled ==
    \A e \in Envs : Completed(e) =>
        \A c \in Border(e) : TypeAt(e, c) = "wall"

\* C7: when a draw range is empty and the call fails, the grid holds
\* nothing that the call placed.
C7_NoPartialLayout ==
    \A e \in Envs : (e.pc = "error" /\ e.err = "ValueError") =>
        \A c \in Cells(e) : get(e.grid, c[1], c[2]) = None

C9_Solvable ==
    \A e \in Envs : (Completed(e) /\ e.phase # 1) => Solvable(e)

\* C10: for width >= 5 and height >= 4, when the agent is placed and when the
\* key is placed the left region has a cell that is empty and not the
\* agent's; the agent and the key end on two distinct cells with column in
\* [1, splitIdx-1] and row in [1, height-2].
C10_PlacementNeverExhausted ==
    \A e \in Envs : (e.width >= 5 /\ e.height >= 4) =>
        /\ e.pc = "agent" => FreeLeft(e) # {}
        /\ (e.pc = "key" /\ e.phase # 2) => FreeLeft(e) # {}
        /\ e.pc \in {"door", "key", "done"} => InLeftInterior(e, e.agent_pos)
        /\ (Completed(e) /\ e.phase # 2) =>
              /\ Cardinality(CellsOf(e, "key")) = 1
              /\ \A k \in CellsOf(e, "key") : k # e.agent_pos /\ InLeftInterior(e, k)

C10_Witness ==
    /\ Completed(env_l) /\ env_l.phase = 1
    /\ env_l.splitIdx = 2 /\ env_l.height = 4
    /\ Cardinality(FreeLeft(env_l)) = 0

====
